---- MODULE Spec2Model ----
(***************************************************************************)
(* A model of the QR code actor: the raster styling pipeline of            *)
(* src/stylingEngine.js (src/unnamed/part_003: generateStyledQR,           *)
(* applyGradient, interpolateColors, applyAdvancedStyle, drawStyledModule, *)
(* applyFrame) and the per-item driver of main.js v2                       *)
(* (src/unnamed/part_004: downloadLogo, generatePNG, saveToKVStore,        *)
(* processQRCode, Actor.main).                                             *)
(*                                                                         *)
(* Specifications.                                                         *)
(*  - Spec: processQRCode on one item, through generatePNG and the stages. *)
(*  - SpecInterp: interpolateColors on drawn stops and positions.          *)
(*  - SpecColumn: applyGradient's loop down one column of dark pixels.     *)
(*  - SpecScan: the module-scanning loops of applyAdvancedStyle.           *)
(*  - SpecRun: Actor.main over the chunks of items, with the webhooks.     *)
(*  - SpecHook: sendWebhook's attempts, waits and result                   *)
(*    (src/unnamed/part_000).                                              *)
(*                                                                         *)
(* Representation.                                                         *)
(*  - A JavaScript 32-bit colour integer is a tuple of its four bytes,     *)
(*    most significant first (the integers exceed the checker's range).    *)
(*    parseInt('RRGGBB', 16) is <<0, RR, GG, BB>>; Jimp.rgbaToInt(r,g,b,a) *)
(*    is <<r, g, b, a>>; Jimp.intToRGBA reads the bytes as r, g, b, a.     *)
(*  - A hex colour string '#RRGGBB' is the tuple <<RR, GG, BB>>.           *)
(*  - A PNG buffer is the stack of transforms that produced it: a sequence *)
(*    of layers whose first is the base raster. Pixel(buf, x, y) computes  *)
(*    the RGBA pixel the buffer holds at (x, y) by the per-pixel body of   *)
(*    each stage's loop; PNG encoding and decoding are lossless.           *)
(*  - A position handed to interpolateColors is the rational num/den, or   *)
(*    (sq = TRUE) the square root of num/den (the radial gradient).        *)
(*    Arithmetic is exact; IEEE rounding of the doubles is not modelled.   *)
(***************************************************************************)
EXTENDS Integers, Sequences, FiniteSets, TLC

VARIABLES
    cfg,            \* the actor input, the item configuration and the network's state
    pc,             \* position of processQRCode / generatePNG / generateStyledQR
    customization,  \* processQRCode: the merged customization
    content,        \* processQRCode: the content variable ("str", "short", "promise")
    qrBuffer,       \* generateStyledQR / generatePNG: the qrBuffer variable
    image,          \* the working image of the running stage (Jimp.read(qrBuffer), mutated)
    ran,            \* history: the stages that were entered, with input, output, outcome
    console,        \* the warnings written with console.log / console.error
    formats,        \* processQRCode: the formats still to produce
    fileData,       \* processQRCode: fileData of the format being produced
    thrown,         \* the exception in flight towards processQRCode's catch
    files,          \* processQRCode: the files map
    store,          \* the key-value store: the filenames written
    events,         \* the webhook events sent, in order
    result,         \* the result record of processQRCode
    outcome,        \* "pending", "resolved" or "rejected": the promise of processQRCode
    interp,         \* interpolateColors applied to drawn inputs (SpecInterp)
    column,         \* applyGradient's loop body down one column of pixels (SpecColumn)
    scan,           \* applyAdvancedStyle's module-scanning loops (SpecScan)
    run,            \* Actor.main: the chunks, the items in flight, the store (SpecRun)
    delivery        \* sendWebhook: the attempts, the waits, the value resolved (SpecHook)

itemVars == <<cfg, pc, customization, content, qrBuffer, image, ran, console,
              formats, fileData, thrown, files, store, events, result, outcome>>
otherVars == <<column, scan, run, delivery>>
vars == <<cfg, pc, customization, content, qrBuffer, image, ran, console,
          formats, fileData, thrown, files, store, events, result, outcome, interp,
          column, scan, run, delivery>>

\* An optional value (a key that may be missing, a variable that may be
\* undefined or null) is <<>> when missing and <<v>> when it holds v.
None == <<>>
Some(v) == <<v>>
IsSet(o) == Len(o) = 1
Val(o) == o[1]
\* JavaScript truthiness of an optional string
Truthy(o) == IsSet(o) /\ Val(o) # ""
\* a destructuring default / `o || d` for a value that is never falsy when set
OrDefault(o, d) == IF IsSet(o) THEN Val(o) ELSE d

(***************************************************************************)
(* Bounds of the model.                                                    *)
(***************************************************************************)
Scale == 2              \* the raster edge is Scale * 33 pixels
MaxChanged == 2         \* inputs differ from the plain input in at most MaxChanged fields
MaxDen == 4             \* positions k/d, d in 1..MaxDen, handed to interpolateColors

(***************************************************************************)
(* Program constants.                                                      *)
(***************************************************************************)
DarkThreshold == 128    \* rgba.r < 128
ModuleDivisor == 33     \* Math.floor(size / 33)
TextSpace == 60         \* frameText ? 60 : 0
DefaultSize == 300      \* size = 300
QuietZone == 4          \* margin = 4
DefaultLogoSize == 20   \* customization.logoSize || 20
MaxPdfImage == 400      \* Math.min(customization.size || 300, 400)
Opaque == 255

Byte == 0..255

Max(a, b) == IF a >= b THEN a ELSE b
Min(a, b) == IF a <= b THEN a ELSE b

(***************************************************************************)
(* Colours.                                                                *)
(***************************************************************************)
Black == <<0, 0, 0>>
White == <<255, 255, 255>>
Red == <<255, 0, 0>>
Blue == <<0, 0, 255>>
Cyan == <<0, 255, 255>>
Grey == <<128, 128, 128>>
Yellow == <<255, 255, 0>>

\* parseInt(c.replace('#', ''), 16): the 24-bit number 0x00RRGGBB
HexToInt(c) == <<0, c[1], c[2], c[3]>>

\* Jimp.rgbaToInt(r, g, b, a)
RgbaToInt(r, g, b, a) == <<r, g, b, a>>

\* Jimp.intToRGBA(i)
IntToRGBA(i) == [r |-> i[1], g |-> i[2], b |-> i[3], a |-> i[4]]

\* the pixel a colour string denotes for the generator and for new Jimp(w, h, css)
CssPixel(c) == <<c[1], c[2], c[3], Opaque>>

(***************************************************************************)
(* Exact comparison of fractions without products (all arguments >= 0,     *)
(* denominators > 0): a/b <= c/d.                                          *)
(***************************************************************************)
RECURSIVE FracLeq(_, _, _, _)
FracLeq(a, b, c, d) ==
    LET qa == a \div b
        qc == c \div d
        ra == a % b
        rc == c % d
    IN  IF qa # qc THEN qa < qc
        ELSE IF ra = 0 THEN TRUE
        ELSE IF rc = 0 THEN FALSE
        ELSE FracLeq(d, rc, b, ra)

\* L <= R * sqrt(num/den), for integers L, R and num >= 0, den > 0
LeqTimesSqrt(L, R, num, den) ==
    IF L <= 0 /\ R >= 0 THEN TRUE
    ELSE IF L > 0 /\ R <= 0 THEN FALSE
    ELSE IF L > 0 THEN FracLeq(L * L, R * R, num, den)
    ELSE FracLeq(num, den, L * L, R * R)

(***************************************************************************)
(* interpolateColors(colors, position)                                     *)
(***************************************************************************)
Position(num, den) == [sq |-> FALSE, num |-> num, den |-> den]
SqrtPosition(num, den) == [sq |-> TRUE, num |-> num, den |-> den]

\* Math.floor(position * (n - 1)), for 0 < position < 1
ScaledIndex(p, n) ==
    IF n = 1 THEN 0
    ELSE IF p.sq
    THEN CHOOSE i \in 0..(n - 1) :
            /\ FracLeq(i * i, (n - 1) * (n - 1), p.num, p.den)
            /\ \A j \in (i + 1)..(n - 1) :
                  ~FracLeq(j * j, (n - 1) * (n - 1), p.num, p.den)
    ELSE (p.num * (n - 1)) \div p.den

\* the largest k in lo..hi with k <= v + 1/2, where
\* v = c1 + D * (sqrt(num/den) * (n - 1) - index); lo satisfies it
RECURSIVE RoundSearch(_, _, _, _, _, _, _)
RoundSearch(lo, hi, c1, D, n, index, p) ==
    IF lo >= hi THEN lo
    ELSE LET mid == (lo + hi + 1) \div 2
             ok == LeqTimesSqrt(2 * mid - 1 - 2 * c1 + 2 * D * index,
                                2 * D * (n - 1), p.num, p.den)
         IN  IF ok THEN RoundSearch(mid, hi, c1, D, n, index, p)
                   ELSE RoundSearch(lo, mid - 1, c1, D, n, index, p)

\* Math.round(c1 + (c2 - c1) * fraction), fraction = position * (n - 1) - index
RoundChannel(c1, c2, p, n, index) ==
    IF p.sq
    THEN RoundSearch(Min(c1, c2), Max(c1, c2), c1, c2 - c1, n, index, p)
    ELSE LET fnum == p.num * (n - 1) - index * p.den
         IN  (2 * (c1 * p.den + (c2 - c1) * fnum) + p.den) \div (2 * p.den)

InterpolateColors(colors, p) ==
    LET hexColors == [i \in 1..Len(colors) |-> HexToInt(colors[i])]
        n == Len(hexColors)
    IN  IF p.num <= 0 THEN hexColors[1]
        ELSE IF p.num >= p.den THEN hexColors[n]
        ELSE LET index == ScaledIndex(p, n)
                 color1 == hexColors[index + 1]
                 color2 == hexColors[Min(index + 1, n - 1) + 1]
                 \* (color >> 16) & 0xff, (color >> 8) & 0xff, color & 0xff
                 r == RoundChannel(color1[2], color2[2], p, n, index)
                 g == RoundChannel(color1[3], color2[3], p, n, index)
                 b == RoundChannel(color1[4], color2[4], p, n, index)
             IN  RgbaToInt(r, g, b, Opaque)

(***************************************************************************)
(* Buffers: a buffer is a sequence of layers, the base raster first.       *)
(***************************************************************************)
\* every layer has the same fields; a stage leaves the ones it does not use alone
Layer(stage, kind, size) ==
    [stage |-> stage, kind |-> kind, size |-> size, colors |-> <<>>,
     c1 |-> Black, c2 |-> White, n |-> 0, rows |-> 0, text |-> FALSE]

\* QRCode.toBuffer(content, {width: size, margin, color: {dark, light}}): a
\* raster of size x size pixels, the dark modules in the dark colour on the
\* light colour. The generator is external: its module grid is stood for by a
\* chequered grid of `cells` cells a side, the outer QuietZone cells light.
BaseLayer(size, cells, dark, light) ==
    [Layer("base", "qr", size) EXCEPT !.c1 = dark, !.c2 = light, !.n = cells]

BaseIsDark(l, x, y) ==
    LET cx == (x * l.n) \div l.size
        cy == (y * l.n) \div l.size
    IN  /\ cx >= QuietZone /\ cx < l.n - QuietZone
        /\ cy >= QuietZone /\ cy < l.n - QuietZone
        /\ (cx + cy) % 2 = 0

BasePixel(l, x, y) == IF BaseIsDark(l, x, y) THEN CssPixel(l.c1) ELSE CssPixel(l.c2)

KnownGradientTypes == {"linear-vertical", "linear-horizontal", "radial"}

\* the position applyGradient hands to interpolateColors for pixel (x, y)
GradientPosition(type, size, x, y) ==
    CASE type = "linear-vertical" -> Position(y, size)
      [] type = "linear-horizontal" -> Position(x, size)
      [] type = "radial" ->
            \* distance / maxDistance, both from (size / 2, size / 2)
            SqrtPosition((2 * x - size) * (2 * x - size) + (2 * y - size) * (2 * y - size),
                         2 * size * size)

\* the body of applyGradient's loop at pixel (x, y) of an image whose pixel is `below`
GradientPixel(l, below, x, y) ==
    IF x < l.size /\ y < l.rows /\ IntToRGBA(below).r < DarkThreshold
    THEN InterpolateColors(l.colors, GradientPosition(l.kind, l.size, x, y))
    ELSE below

\* Math.floor(size / 33)
ModuleSize(size) == size \div ModuleDivisor

\* drawStyledModule: does the scan callback of a module of `ms` pixels set the
\* pixel at (lx, ly), relative to the module's origin
ModuleCovers(style, ms, lx, ly) ==
    CASE style = "dots" ->
            \* distance from (x + ms/2, y + ms/2) is at most ms/2
            (2 * lx - ms) * (2 * lx - ms) + (2 * ly - ms) * (2 * ly - ms) <= ms * ms
      [] style \in {"rounded", "classy-rounded"} ->
            \* cornerRadius = ms * 0.3; coordinates scaled by 10
            LET cr == 3 * ms
                far == 10 * ms - cr
                X == 10 * lx
                Y == 10 * ly
                inTopLeft == X < cr /\ Y < cr
                inTopRight == X > far /\ Y < cr
                inBottomLeft == X < cr /\ Y > far
                inBottomRight == X > far /\ Y > far
                Within(cx, cy) == (X - cx) * (X - cx) + (Y - cy) * (Y - cy) <= cr * cr
            IN  IF inTopLeft THEN Within(cr, cr)
                ELSE IF inTopRight THEN Within(far, cr)
                ELSE IF inBottomLeft THEN Within(cr, far)
                ELSE IF inBottomRight THEN Within(far, far)
                ELSE TRUE
      [] OTHER -> TRUE      \* default: the whole square

BlankPixel == <<255, 255, 255, 255>>     \* new Jimp(size, size, 0xFFFFFFFF)

\* Jimp's composite of an opaque destination pixel with a source pixel
Over(src, dst) ==
    LET a == src[4]
        Mix(s, d) == (s * a + d * (Opaque - a)) \div Opaque
    IN  <<Mix(src[1], dst[1]), Mix(src[2], dst[2]), Mix(src[3], dst[3]), Opaque>>

\* a variant of the frame width that rounds to the nearest pixel
FrameWidthRounded(size) == (size + 5) \div 10

\* Math.floor(size * 0.1)
FrameWidth(size) == size \div 10
NewSize(size) == size + FrameWidth(size) * 2
TextSpaceOf(text) == IF text THEN TextSpace ELSE 0

\* Math.floor((qrSize * logoSizePercent) / 100)
LogoSize(size, pct) == (size * pct) \div 100
LogoInk == <<255, 128, 0, 255>>          \* the logo: an opaque square image

RECURSIVE WidthAt(_, _)
WidthAt(buf, k) ==
    LET l == buf[k]
    IN  CASE l.stage \in {"base", "style"} -> l.size
          [] l.stage = "frame" -> NewSize(l.size)
          [] OTHER -> WidthAt(buf, k - 1)

RECURSIVE HeightAt(_, _)
HeightAt(buf, k) ==
    LET l == buf[k]
    IN  CASE l.stage \in {"base", "style"} -> l.size
          [] l.stage = "frame" -> NewSize(l.size) + TextSpaceOf(l.text)
          [] OTHER -> HeightAt(buf, k - 1)

Width(buf) == WidthAt(buf, Len(buf))
Height(buf) == HeightAt(buf, Len(buf))

RECURSIVE PixelAt(_, _, _, _)
PixelAt(buf, k, x, y) ==
    LET l == buf[k]
    IN  CASE l.stage = "base" -> BasePixel(l, x, y)
          [] l.stage = "gradient" -> GradientPixel(l, PixelAt(buf, k - 1, x, y), x, y)
          [] l.stage = "style" ->
                \* applyAdvancedStyle: the module of (x, y), sampled at its centre,
                \* drawn in the colour of its origin pixel
                LET ms == ModuleSize(l.size)
                    mx == x - (x % ms)
                    my == y - (y % ms)
                    centre == PixelAt(buf, k - 1, mx + ms \div 2, my + ms \div 2)
                IN  IF /\ my < l.rows
                       /\ IntToRGBA(centre).r < DarkThreshold
                       /\ ModuleCovers(l.kind, ms, x - mx, y - my)
                    THEN PixelAt(buf, k - 1, mx, my)
                    ELSE BlankPixel
          [] l.stage = "frame" ->
                \* new Jimp(newSize, newSize + textSpace, frameColor), then
                \* composite(image, frameWidth, frameWidth), then the style's mask
                LET fw == FrameWidth(l.size)
                    N == NewSize(l.size)
                    inside == /\ x >= fw /\ x < fw + WidthAt(buf, k - 1)
                              /\ y >= fw /\ y < fw + HeightAt(buf, k - 1)
                    flat == IF inside
                            THEN Over(PixelAt(buf, k - 1, x - fw, y - fw), CssPixel(l.c1))
                            ELSE CssPixel(l.c1)
                    \* circle({radius: N/2, x: N/2, y: N/2}): outside it alpha is 0
                    \* (the one-pixel antialiased rim is not modelled)
                    outside == (2 * x - N) * (2 * x - N) + (2 * y - N) * (2 * y - N) >= N * N
                IN  IF l.kind = "circular" /\ outside
                    THEN <<flat[1], flat[2], flat[3], 0>>
                    ELSE flat
          [] l.stage = "logo" ->
                \* sharp(qrBuffer).composite([{input: resizedLogo, gravity: 'center'}])
                LET ls == LogoSize(l.size, l.n)
                    off == (WidthAt(buf, k - 1) - ls) \div 2
                IN  IF x >= off /\ x < off + ls /\ y >= off /\ y < off + ls
                    THEN LogoInk
                    ELSE PixelAt(buf, k - 1, x, y)

Pixel(buf, x, y) == PixelAt(buf, Len(buf), x, y)

(***************************************************************************)
(* Inputs. A configuration names, field by field, the actor input, the     *)
(* item and the state of the collaborators the run meets (the network, the *)
(* key-value store). Every field is a tag; the operators below decode it.  *)
(***************************************************************************)
Size == Scale * ModuleDivisor       \* input.customization.size
GridCells == 29                     \* a version-1 code: 21 modules and a margin of 4

Plain ==
    [type |-> "url",            \* qrConfig.type; "" is a missing type
     id |-> "",                 \* qrConfig.id; "" is a missing id
     template |-> "",           \* input.template
     outputFormat |-> "png",    \* input.outputFormat; "" is omitted
     trackingUrl |-> "",        \* input.trackingUrl
     shortening |-> "off",      \* input.urlShortening.enabled, the service "up" or "down"
     webhook |-> "off",         \* input.webhookUrl
     save |-> "on",             \* input.saveToKeyValueStore; "down": the write fails
     content |-> "ok",          \* qrConfig.content; "toolong" exceeds the code's capacity
     style |-> "",              \* customization.style
     gradient |-> "unset",      \* customization.gradientType and gradientColors
     frame |-> "unset",         \* customization.frame and frameText
     logo |-> "none",           \* customization.logoUrl, and what fetching it gives
     palette |-> "plain",       \* customization.foregroundColor / backgroundColor
     global |-> "plain"]        \* input.customization: the size alone, a style too,
                                \* or a framed light-on-dark code

Values(f) ==
    CASE f = "type" -> {"url", ""}
      [] f = "id" -> {"", "a"}
      [] f = "template" -> {"", "minimalist", "vibrant", "nope"}
      [] f = "outputFormat" -> {"png", "", "svg", "all"}
      [] f = "trackingUrl" -> {"", "https://t"}
      [] f = "shortening" -> {"off", "up", "down"}
      [] f = "webhook" -> {"off", "on"}
      [] f = "save" -> {"on", "off", "down"}
      [] f = "content" -> {"ok", "toolong"}
      [] f = "style" -> {"", "square", "dots", "rounded", "extra-rounded", "classy",
                         "star"}
      [] f = "gradient" -> {"unset", "none", "vertical", "radial", "nocolors", "conic",
                            "onestop"}
      [] f = "frame" -> {"unset", "none", "basic", "caption", "edge", "ornate"}
      [] f = "logo" -> {"none", "ok", "unreachable", "corrupt"}
      [] f = "palette" -> {"plain", "cyan", "red", "yellow"}
      [] f = "global" -> {"plain", "styled", "inverted"}

\* the configurations that differ from Plain in at most k fields
RECURSIVE Configs(_)
Configs(k) ==
    IF k = 0 THEN {Plain}
    ELSE UNION { UNION { {[c EXCEPT ![f] = v] : v \in Values(f)} : f \in DOMAIN Plain }
                 : c \in Configs(k - 1) }

GradientStops == <<Red, Blue>>

CustKeys == {"size", "foregroundColor", "backgroundColor", "style", "gradientType",
             "gradientColors", "frame", "frameText", "frameColor", "logoUrl", "logoSize"}

NoCustomization == [k \in CustKeys |-> None]

\* qrConfig.customization
ItemCustomization(c) ==
    [NoCustomization EXCEPT
        !.style = IF c.style = "" THEN None ELSE Some(c.style),
        !.gradientType =
            CASE c.gradient = "unset" -> None
              [] c.gradient = "none" -> Some("none")
              [] c.gradient \in {"vertical", "onestop"} -> Some("linear-vertical")
              [] c.gradient \in {"radial", "nocolors"} -> Some("radial")
              [] c.gradient = "conic" -> Some("conic"),
        !.gradientColors =
            CASE c.gradient \in {"unset", "nocolors"} -> None
              [] c.gradient = "onestop" -> Some(<<Red>>)
              [] OTHER -> Some(GradientStops),
        !.frame =
            CASE c.frame = "unset" -> None
              [] c.frame = "none" -> Some("none")
              [] c.frame \in {"basic", "caption"} -> Some("basic")
              [] c.frame = "edge" -> Some("edge")
              [] c.frame = "ornate" -> Some("ornate"),
        !.frameText = IF c.frame = "caption" THEN Some("Scan me") ELSE None,
        !.logoUrl = IF c.logo = "none" THEN None ELSE Some("https://logo"),
        !.foregroundColor =
            CASE c.palette = "plain" -> None
              [] c.palette \in {"cyan", "yellow"} -> Some(Black)
              [] c.palette = "red" -> Some(Red),
        !.backgroundColor =
            CASE c.palette = "plain" -> None
              [] c.palette = "cyan" -> Some(Cyan)
              [] c.palette = "yellow" -> Some(Yellow)
              [] c.palette = "red" -> Some(White)]

\* input.customization || {}
GlobalCustomization(c) ==
    IF c.global = "styled"
    THEN [NoCustomization EXCEPT
            !.size = Some(Size),
            !.style = Some("rounded"),
            !.frame = Some("basic"),
            !.foregroundColor = Some(Blue)]
    ELSE IF c.global = "inverted"
    THEN [NoCustomization EXCEPT
            !.size = Some(Size),
            !.foregroundColor = Some(White),
            !.backgroundColor = Some(Blue),
            !.frame = Some("basic")]
    ELSE [NoCustomization EXCEPT !.size = Some(Size)]

\* TEMPLATES.MINIMALIST.customization
MinimalistCustomization ==
    [NoCustomization EXCEPT
        !.size = Some(DefaultSize),
        !.foregroundColor = Some(Black),
        !.backgroundColor = Some(White),
        !.style = Some("square"),
        !.frame = Some("none")]

\* TEMPLATES.VIBRANT.customization
VibrantCustomization ==
    [NoCustomization EXCEPT
        !.size = Some(400),
        !.foregroundColor = Some(<<255, 107, 53>>),
        !.backgroundColor = Some(<<255, 245, 230>>),
        !.style = Some("dots"),
        !.frame = Some("banner"),
        !.gradientType = Some("linear-vertical"),
        !.gradientColors = Some(<<<<255, 107, 53>>, <<255, 0, 128>>>>)]

\* getTemplate(name): the template's customization, or none when it throws
GetTemplate(name) ==
    CASE name = "minimalist" -> Some(MinimalistCustomization)
      [] name = "vibrant" -> Some(VibrantCustomization)
      [] OTHER -> None

\* a variant of the spread in which the first object's keys win
SpreadKeepFirst(a, b) == [k \in CustKeys |-> IF IsSet(a[k]) THEN a[k] ELSE b[k]]

\* { ...a, ...b }
Spread(a, b) == [k \in CustKeys |-> IF IsSet(b[k]) THEN b[k] ELSE a[k]]

\* processQRCode: the customization after the global one, the item's own and
\* the template are merged
MergedCustomization(c) ==
    LET merged == Spread(GlobalCustomization(c), ItemCustomization(c))
    IN  IF c.template # "" /\ IsSet(GetTemplate(c.template))
        THEN Spread(Val(GetTemplate(c.template)), merged)
        ELSE merged

\* qrConfig.id || `qr-${index + 1}`, for the item at index 0
ItemId(c) == IF c.id # "" THEN c.id ELSE "qr-" \o ToString(0 + 1)

\* `${input.filenamePrefix || 'qr-code'}-${id}.${format}`
Filename(c, format) == "qr-code" \o "-" \o ItemId(c) \o "." \o format

(***************************************************************************)
(* generateStyledQR: options and stages                                    *)
(***************************************************************************)
Stages == {"gradient", "style", "frame"}

\* the destructured options of generateStyledQR, defaults applied
StyledOptions(cust) ==
    [size |-> OrDefault(cust.size, DefaultSize),
     foregroundColor |-> OrDefault(cust.foregroundColor, Black),
     backgroundColor |-> OrDefault(cust.backgroundColor, White),
     style |-> OrDefault(cust.style, "square"),
     gradientType |-> OrDefault(cust.gradientType, "none"),
     gradientColors |-> cust.gradientColors,
     frame |-> OrDefault(cust.frame, "none"),
     frameColor |-> OrDefault(cust.frameColor, Black),
     frameText |-> OrDefault(cust.frameText, "")]

\* STYLE_TYPES and FRAME_STYLES
KnownStyles == {"square", "dots", "rounded", "extra-rounded", "classy", "classy-rounded"}
KnownFrames == {"none", "basic", "circular", "edge", "camera", "banner"}

\* a variant of the stage conditions that tests every option against 'none'
\* and forgets the gradient's type
StageConfiguredLoosely(s, o) ==
    CASE s = "gradient" -> IsSet(o.gradientColors) /\ Len(Val(o.gradientColors)) >= 2
      [] s = "style" -> o.style # "none"
      [] s = "frame" -> o.frame # "none"

\* the condition under which generateStyledQR calls a stage
StageConfigured(s, o) ==
    CASE s = "gradient" ->
            /\ o.gradientType # "none"
            /\ IsSet(o.gradientColors)
            /\ Len(Val(o.gradientColors)) >= 2
      [] s = "style" -> o.style # "square"
      [] s = "frame" -> o.frame # "none"

\* a variant of the stage sequence with the frame put before the restyling
AfterStageFrameFirst(s) ==
    CASE s = "base" -> "gradient"
      [] s = "gradient" -> "frame"
      [] s = "frame" -> "style"
      [] s = "style" -> "return"

\* the position generateStyledQR moves to when stage s is over
AfterStage(s) ==
    CASE s = "base" -> "gradient"
      [] s = "gradient" -> "style"
      [] s = "style" -> "frame"
      [] s = "frame" -> "return"

\* some pixel of the raster has a red channel below the threshold
HasDarkPixel(buf, size) ==
    \E x \in 0..(size - 1) : \E y \in 0..(size - 1) :
        IntToRGBA(Pixel(buf, x, y)).r < DarkThreshold

\* the stage cannot complete: applyGradient's default branch hands the string
\* colors[0] to setPixelColor, which throws on the first dark pixel
MustThrow(s, buf, o) ==
    /\ s = "gradient"
    /\ o.gradientType \notin KnownGradientTypes
    /\ HasDarkPixel(buf, o.size)

\* the working image of stage s on input buf once `rows` rows have been done
\* (for the frame: the caption is printed last)
StageImage(s, buf, o, rows) ==
    CASE s = "gradient" ->
            Append(buf, [Layer("gradient", o.gradientType, o.size) EXCEPT
                            !.colors = Val(o.gradientColors), !.rows = rows])
      [] s = "style" ->
            Append(buf, [Layer("style", o.style, o.size) EXCEPT !.rows = rows])
      [] s = "frame" ->
            Append(buf, [Layer("frame", o.frame, o.size) EXCEPT
                            !.c1 = o.frameColor, !.rows = rows,
                            !.text = (o.frameText # "" /\ rows = o.size)])

\* a variant of the catch block that returns the image the stage was working on
ReturnWorking(buffer, working) == working

\* catch (error) { console.log(...); return qrBuffer; }
CatchReturn(buffer, working) == buffer

(***************************************************************************)
(* generatePNG                                                             *)
(***************************************************************************)
\* customization.style || customization.gradientType || customization.frame
UsesStyledGenerator(cust) ==
    Truthy(cust.style) \/ Truthy(cust.gradientType) \/ Truthy(cust.frame)

\* the base raster of the standard path
StandardBase(cust) ==
    <<BaseLayer(OrDefault(cust.size, DefaultSize), GridCells,
                OrDefault(cust.foregroundColor, Black),
                OrDefault(cust.backgroundColor, White))>>

\* the base raster of generateStyledQR
StyledBase(o) == <<BaseLayer(o.size, GridCells, o.foregroundColor, o.backgroundColor)>>

\* sharp(qrBuffer).composite([{input: resizedLogo, gravity: 'center'}])
WithLogo(buf, cust) ==
    Append(buf, [Layer("logo", "center", OrDefault(cust.size, DefaultSize)) EXCEPT
                    !.n = OrDefault(cust.logoSize, DefaultLogoSize)])

\* a variant of generatePNG's return that has no fallback to the plain code
PngOrNothing(buffer, logo) == logo

\* what generatePNG returns once the logo has been asked for:
\* logo is the composited image, or none when the logo was not added
PngWithLogo(buffer, logo) == IF IsSet(logo) THEN logo ELSE Some(buffer)

\* generateSVG: the markup QRCode.toString gives for the code, in the colours
\* and the size of the customization
SvgDocument(cust) ==
    <<[BaseLayer(OrDefault(cust.size, DefaultSize), GridCells,
                 OrDefault(cust.foregroundColor, Black),
                 OrDefault(cust.backgroundColor, White)) EXCEPT !.stage = "svg"]>>

\* generatePDF: an A4 page with a heading, the image fitted into a square of
\* Math.min(size, 400) points, and the content
PdfDocument(png, cust) ==
    Append(png, [Layer("pdf", "A4", Min(OrDefault(cust.size, DefaultSize), MaxPdfImage))
                    EXCEPT !.text = TRUE])

\* QRCode.toBuffer throws: the content is no string, or exceeds the capacity
GeneratorThrows(c, text) == text = "promise" \/ c.content = "toolong"

(***************************************************************************)
(* processQRCode(qrConfig, globalCustomization, input, 0, webhookManager)  *)
(***************************************************************************)
At(a) == [at |-> a, stage |-> ""]
AtStage(a, s) == [at |-> a, stage |-> s]

\* where generateStyledQR goes once stage s is over or skipped
Onward(s) ==
    IF AfterStage(s) = "return" THEN At("styled-return")
    ELSE AtStage("decide", AfterStage(s))

\* input.outputFormat === 'all' ? ['png', 'svg', 'pdf'] : [input.outputFormat]
FormatsOf(c) ==
    IF c.outputFormat = "all" THEN <<"png", "svg", "pdf">> ELSE <<c.outputFormat>>

\* where generatePNG returns to: processQRCode's switch, or generatePDF
PngReturn(fmts) == IF Head(fmts) = "pdf" THEN At("pdf") ELSE At("save")

\* the parts of the program that a specification does not exercise stay idle
Idle == [phase |-> "idle"]
InitOthers == column = Idle /\ scan = Idle /\ run = Idle /\ delivery = Idle

IdleInterp == [phase |-> "idle", colors |-> <<>>, p |-> Position(0, 1),
               q |-> Position(0, 1), outP |-> None, outQ |-> None]

InitItem ==
    /\ pc = At("start")
    /\ customization = NoCustomization
    /\ content = "str"
    /\ qrBuffer = None
    /\ image = None
    /\ ran = <<>>
    /\ console = {}
    /\ formats = <<>>
    /\ fileData = None
    /\ thrown = None
    /\ files = <<>>
    /\ store = {}
    /\ events = <<>>
    /\ result = None
    /\ outcome = "pending"

Init ==
    /\ cfg \in Configs(MaxChanged)
    /\ InitItem
    /\ interp = IdleInterp
    /\ InitOthers

\* webhookManager.send(event, ...): a manager exists when input.webhookUrl is set
Send(event) == IF cfg.webhook = "on" THEN Append(events, event) ELSE events

\* the merge of the customizations, the template, URL shortening, the tracking URL
Prepare ==
    /\ pc = At("start")
    /\ customization' = MergedCustomization(cfg)
    /\ console' = console
            \cup (IF cfg.template # "" /\ ~IsSet(GetTemplate(cfg.template))
                  THEN {"template-not-found"} ELSE {})
            \cup (IF cfg.shortening = "down" /\ cfg.type = "url"
                  THEN {"url-shortening-failed"} ELSE {})
    /\ content' =
            \* createTrackingUrl is async and is not awaited: content is a promise
            IF cfg.trackingUrl # "" THEN "promise"
            ELSE IF cfg.shortening = "up" /\ cfg.type = "url" THEN "short"
            ELSE content
    /\ pc' = At("prepared")
    /\ UNCHANGED <<cfg, qrBuffer, image, ran, formats, fileData, thrown, files,
                   store, events, result, outcome, interp, otherVars>>

\* formatQRContent(qrConfig.type, content) and the result record; type.toLowerCase()
\* throws on a missing type, outside processQRCode's try
FormatContent ==
    /\ pc = At("prepared")
    /\ IF cfg.type = ""
       THEN /\ thrown' = Some("TypeError")
            /\ outcome' = "rejected"
            /\ pc' = At("rejected")
            /\ UNCHANGED <<result, formats>>
       ELSE /\ result' = Some([id |-> ItemId(cfg), type |-> cfg.type,
                               format |-> cfg.outputFormat,
                               hasLogo |-> Truthy(customization.logoUrl),
                               success |-> None, error |-> None,
                               files |-> None, fileUrl |-> None])
            /\ formats' = FormatsOf(cfg)
            /\ pc' = At("formats")
            /\ UNCHANGED <<thrown, outcome>>
    /\ UNCHANGED <<cfg, customization, content, qrBuffer, image, ran, console,
                   fileData, files, store, events, interp, otherVars>>

\* the head of the loop over the formats and its switch; generatePDF begins
\* with a call of generatePNG, and ran starts anew with every such call
NextFormat ==
    /\ pc = At("formats")
    /\ formats # <<>>
    /\ IF Head(formats) \in {"png", "pdf"}
       THEN /\ pc' = IF UsesStyledGenerator(customization)
                     THEN At("styled-base") ELSE At("standard-base")
            /\ ran' = <<>>
            /\ UNCHANGED formats
       ELSE IF Head(formats) = "svg"
       THEN /\ pc' = At("svg")
            /\ UNCHANGED <<formats, ran>>
       ELSE \* no case matches: fileData stays undefined and nothing is stored
            /\ formats' = Tail(formats)
            /\ UNCHANGED <<pc, ran>>
    /\ fileData' = None
    /\ UNCHANGED <<cfg, customization, content, qrBuffer, image, console,
                   thrown, files, store, events, result, outcome, interp, otherVars>>

\* generateSVG: QRCode.toString with type 'svg'
GenerateSvg ==
    /\ pc = At("svg")
    /\ IF GeneratorThrows(cfg, content)
       THEN /\ thrown' = Some("generator")
            /\ pc' = At("catch")
            /\ UNCHANGED fileData
       ELSE /\ fileData' = Some(SvgDocument(customization))
            /\ pc' = At("save")
            /\ UNCHANGED thrown
    /\ UNCHANGED <<cfg, customization, content, qrBuffer, image, ran, console,
                   formats, files, store, events, result, outcome, interp, otherVars>>

\* generatePDF, once generatePNG has returned: the image is put on a page
MakePdf ==
    /\ pc = At("pdf")
    /\ fileData' = Some(PdfDocument(Val(fileData), customization))
    /\ pc' = At("save")
    /\ UNCHANGED <<cfg, customization, content, qrBuffer, image, ran, console,
                   formats, thrown, files, store, events, result, outcome, interp,
                   otherVars>>

\* generateStyledQR: QRCode.toBuffer
GenerateStyledBase ==
    /\ pc = At("styled-base")
    /\ IF GeneratorThrows(cfg, content)
       THEN /\ thrown' = Some("generator")
            /\ pc' = At("catch")
            /\ UNCHANGED qrBuffer
       ELSE /\ qrBuffer' = Some(StyledBase(StyledOptions(customization)))
            /\ pc' = Onward("base")
            /\ UNCHANGED thrown
    /\ UNCHANGED <<cfg, customization, content, image, ran, console, formats,
                   fileData, files, store, events, result, outcome, interp, otherVars>>

\* generateStyledQR: the stage's condition is false
StageSkip(s) ==
    /\ pc = AtStage("decide", s)
    /\ ~StageConfigured(s, StyledOptions(customization))
    /\ pc' = Onward(s)
    /\ UNCHANGED <<cfg, customization, content, qrBuffer, image, ran, console,
                   formats, fileData, thrown, files, store, events, result,
                   outcome, interp, otherVars>>

\* generateStyledQR calls the stage, which reads its input into a working image
StageEnter(s) ==
    /\ pc = AtStage("decide", s)
    /\ StageConfigured(s, StyledOptions(customization))
    /\ image' = Some(StageImage(s, Val(qrBuffer), StyledOptions(customization), 0))
    /\ ran' = Append(ran, [stage |-> s, input |-> Val(qrBuffer), output |-> None,
                           failed |-> FALSE])
    /\ pc' = AtStage("running", s)
    /\ UNCHANGED <<cfg, customization, content, qrBuffer, console, formats,
                   fileData, thrown, files, store, events, result, outcome, interp, otherVars>>

\* the stage returns: its image when it completed, what its catch returns when
\* an exception was raised (here half way through the rows)
StageReturn(s) ==
    /\ pc = AtStage("running", s)
    /\ s = "style" => ModuleSize(StyledOptions(customization).size) > 0
    /\ \E threw \in BOOLEAN :
        LET o == StyledOptions(customization)
            must == MustThrow(s, Val(qrBuffer), o)
            rows == IF must THEN 0 ELSE IF threw THEN o.size \div 2 ELSE o.size
            working == StageImage(s, Val(qrBuffer), o, rows)
            out == IF threw THEN CatchReturn(Val(qrBuffer), working) ELSE working
        IN  /\ must => threw
            /\ qrBuffer' = Some(out)
            /\ image' = None
            /\ ran' = [ran EXCEPT ![Len(ran)].output = Some(out),
                                  ![Len(ran)].failed = threw]
            /\ console' = IF threw THEN console \cup {s \o "-failed"} ELSE console
    /\ pc' = Onward(s)
    /\ UNCHANGED <<cfg, customization, content, formats, fileData, thrown, files,
                   store, events, result, outcome, interp, otherVars>>

\* generateStyledQR returns qrBuffer, and generatePNG returns it
StyledReturn ==
    /\ pc = At("styled-return")
    /\ fileData' = qrBuffer
    /\ pc' = PngReturn(formats)
    /\ UNCHANGED <<cfg, customization, content, qrBuffer, image, ran, console,
                   formats, thrown, files, store, events, result, outcome, interp, otherVars>>

\* generatePNG, standard path: QRCode.toBuffer
GenerateStandardBase ==
    /\ pc = At("standard-base")
    /\ IF GeneratorThrows(cfg, content)
       THEN /\ thrown' = Some("generator")
            /\ pc' = At("catch")
            /\ UNCHANGED <<qrBuffer, fileData>>
       ELSE /\ qrBuffer' = Some(StandardBase(customization))
            /\ IF Truthy(customization.logoUrl)
               THEN pc' = At("logo-download") /\ UNCHANGED fileData
               ELSE /\ pc' = PngReturn(formats)
                    /\ fileData' = Some(StandardBase(customization))
            /\ UNCHANGED thrown
    /\ UNCHANGED <<cfg, customization, content, image, ran, console, formats,
                   files, store, events, result, outcome, interp, otherVars>>

\* downloadLogo: null and a warning when the fetch fails or times out
DownloadLogo ==
    /\ pc = At("logo-download")
    /\ IF cfg.logo = "unreachable"
       THEN /\ console' = console \cup {"logo-download-failed"}
            /\ fileData' = PngWithLogo(Val(qrBuffer), None)
            /\ pc' = PngReturn(formats)
       ELSE /\ pc' = At("logo-composite")
            /\ UNCHANGED <<console, fileData>>
    /\ UNCHANGED <<cfg, customization, content, qrBuffer, image, ran, formats,
                   thrown, files, store, events, result, outcome, interp, otherVars>>

\* sharp's resize and composite of the logo, inside generatePNG's try
CompositeLogo ==
    /\ pc = At("logo-composite")
    /\ IF cfg.logo = "corrupt"
       THEN /\ console' = console \cup {"logo-overlay-failed"}
            /\ fileData' = PngWithLogo(Val(qrBuffer), None)
       ELSE /\ fileData' = PngWithLogo(Val(qrBuffer),
                                       Some(WithLogo(Val(qrBuffer), customization)))
            /\ UNCHANGED console
    /\ pc' = PngReturn(formats)
    /\ UNCHANGED <<cfg, customization, content, qrBuffer, image, ran, formats,
                   thrown, files, store, events, result, outcome, interp, otherVars>>

\* if (fileData) { files[format] = ...; saveToKVStore(...) }, then the next format
SaveFile ==
    /\ pc = At("save")
    /\ LET format == Head(formats)
           name == Filename(cfg, format)
           file(url) == [format |-> format, filename |-> name,
                         buffer |-> Val(fileData), url |-> url]
       IN  IF ~IsSet(fileData)
           THEN /\ formats' = Tail(formats)
                /\ pc' = At("formats")
                /\ UNCHANGED <<files, store, thrown>>
           ELSE IF cfg.save = "off"
           THEN /\ files' = Append(files, file(None))
                /\ formats' = Tail(formats)
                /\ pc' = At("formats")
                /\ UNCHANGED <<store, thrown>>
           ELSE IF cfg.save = "down"
           THEN \* Actor.setValue throws
                /\ files' = Append(files, file(None))
                /\ thrown' = Some("store")
                /\ pc' = At("catch")
                /\ UNCHANGED <<store, formats>>
           ELSE /\ store' = store \cup {name}
                /\ files' = Append(files, file(Some("records/" \o name)))
                /\ formats' = Tail(formats)
                /\ pc' = At("formats")
                /\ UNCHANGED thrown
    /\ UNCHANGED <<cfg, customization, content, qrBuffer, image, ran, console,
                   fileData, events, result, outcome, interp, otherVars>>

\* files[formats[0]]?.url
FirstUrl(fs, first) ==
    IF \E i \in 1..Len(fs) : fs[i].format = first
    THEN fs[CHOOSE i \in 1..Len(fs) : fs[i].format = first].url
    ELSE None

\* the end of the try block
Succeed ==
    /\ pc = At("formats")
    /\ formats = <<>>
    /\ result' = Some([Val(result) EXCEPT
                        !.files = Some(files),
                        !.fileUrl = FirstUrl(files, FormatsOf(cfg)[1]),
                        !.success = Some(TRUE)])
    /\ events' = Send("qrcode.created")
    /\ outcome' = "resolved"
    /\ pc' = At("done")
    /\ UNCHANGED <<cfg, customization, content, qrBuffer, image, ran, console,
                   formats, fileData, thrown, files, store, interp, otherVars>>

\* the catch block
Fail ==
    /\ pc = At("catch")
    /\ console' = console \cup {"item-failed"}
    /\ result' = Some([Val(result) EXCEPT !.success = Some(FALSE), !.error = thrown])
    /\ events' = Send("qrcode.failed")
    /\ outcome' = "resolved"
    /\ pc' = At("done")
    /\ UNCHANGED <<cfg, customization, content, qrBuffer, image, ran, formats,
                   fileData, thrown, files, store, interp, otherVars>>

Next ==
    \/ Prepare
    \/ FormatContent
    \/ NextFormat
    \/ GenerateStyledBase
    \/ \E s \in Stages : StageSkip(s)
    \/ \E s \in Stages : StageEnter(s)
    \/ \E s \in Stages : StageReturn(s)
    \/ StyledReturn
    \/ GenerateStandardBase
    \/ GenerateSvg
    \/ MakePdf
    \/ DownloadLogo
    \/ CompositeLogo
    \/ SaveFile
    \/ Succeed
    \/ Fail

Spec == Init /\ [][Next]_vars

(***************************************************************************)
(* interpolateColors applied to drawn stops and positions                  *)
(***************************************************************************)
StopColors == {Black, White, Red, Blue, Grey}
MaxStops == 3           \* lists of 2..MaxStops stops

RECURSIVE StopListsOf(_)
StopListsOf(n) ==
    IF n = 0 THEN {<<>>}
    ELSE {Append(l, c) : l \in StopListsOf(n - 1), c \in StopColors}

StopLists == UNION {StopListsOf(n) : n \in 2..MaxStops}
Positions == UNION { {Position(k, d) : k \in (-1)..(d + 1)} : d \in 1..MaxDen }

\* p <= q, for rational positions
PosLeq(p, q) == p.num * q.den <= q.num * p.den

InitInterp ==
    /\ cfg = Plain
    /\ InitItem
    /\ \E cs \in StopLists : \E p \in Positions : \E q \in Positions :
        /\ PosLeq(p, q)
        /\ interp = [phase |-> "input", colors |-> cs, p |-> p, q |-> q,
                     outP |-> None, outQ |-> None]
    /\ InitOthers

Interpolate ==
    /\ interp.phase = "input"
    /\ interp' = [interp EXCEPT
                    !.phase = "done",
                    !.outP = Some(InterpolateColors(interp.colors, interp.p)),
                    !.outQ = Some(InterpolateColors(interp.colors, interp.q))]
    /\ UNCHANGED <<itemVars, otherVars>>

NextInterp == Interpolate

SpecInterp == InitInterp /\ [][NextInterp]_vars

(***************************************************************************)
(* Properties                                                              *)
(***************************************************************************)
\* the options generateStyledQR works with for this item
Options == StyledOptions(customization)

\* generatePNG has returned, to processQRCode's switch or to generatePDF
PngReturned == (pc.at = "save" /\ Head(formats) = "png") \/ pc.at = "pdf"

\* generateStyledQR has returned to generatePNG
StyledOver ==
    /\ UsesStyledGenerator(customization)
    /\ pc.at = "styled-return" \/ PngReturned \/ (pc.at = "save" /\ Head(formats) = "pdf")

\* the stages that have been entered so far
StagesRun == {ran[i].stage : i \in 1..Len(ran)}

\* coordinates at which two rasters of n pixels a side are compared
Probes(n) == {(k * n) \div 8 : k \in 0..7} \cup {n - 1}

\* the rank of a stage in generateStyledQR
Rank(s) == CASE s = "gradient" -> 1 [] s = "style" -> 2 [] s = "frame" -> 3

\* the luminance of a pixel (ITU-R BT.601 weights)
Luminance(i) == (299 * i[1] + 587 * i[2] + 114 * i[3]) \div 1000

\* C1: a stage in which an exception is raised returns exactly the buffer it
\* was given and throws nothing; the stages after it run on that buffer, and
\* every configured stage has been called when generateStyledQR returns.
C1_FailedStagePassesInputThrough ==
    /\ \A i \in 1..Len(ran) :
          ran[i].failed =>
              /\ ran[i].output = Some(ran[i].input)
              /\ IsSet(thrown) => Val(thrown) = "store"
              /\ i < Len(ran) => ran[i + 1].input = ran[i].input
    /\ StyledOver => StagesRun = {s \in Stages : StageConfigured(s, Options)}

\* a stage failed and the stage after it has completed
C1_Witness ==
    \E i \in 1..Len(ran) :
        /\ ran[i].failed
        /\ i < Len(ran)
        /\ IsSet(ran[i + 1].output)
        /\ ~ran[i + 1].failed

\* style, gradientType or frame holds a value outside its enumeration
UnrecognizedEnum(o) ==
    \/ o.style \notin KnownStyles
    \/ o.frame \notin KnownFrames
    \/ o.gradientType \notin KnownGradientTypes \cup {"none"}

\* C2: with a style, gradientType or frame outside its enumeration,
\* generateStyledQR fails before any stage has run: no stage is ever entered
\* and the generator never returns an image.
C2_UnrecognizedEnumFailsFast ==
    (UsesStyledGenerator(customization) /\ UnrecognizedEnum(Options)) =>
        /\ ran = <<>>
        /\ pc.at # "styled-return"

\* a stage has completed under an unrecognized style, gradientType or frame
C2_Witness ==
    /\ UnrecognizedEnum(Options)
    /\ \E i \in 1..Len(ran) : IsSet(ran[i].output) /\ ~ran[i].failed

\* C3: processQRCode never rejects; it resolves with one result record that
\* carries a success flag and, on failure, an error message.
C3_AlwaysResolvesWithRecord ==
    /\ outcome # "rejected"
    /\ outcome = "resolved" =>
          /\ IsSet(result)
          /\ IsSet(Val(result).success)
          /\ Val(result).success = Some(FALSE) => IsSet(Val(result).error)

\* processQRCode has rejected on an item without a type
C3_Witness == outcome = "rejected" /\ cfg.type = "" /\ ~IsSet(result)

\* the failure notes a caller can read in a result record
Diagnostics(r) == IF IsSet(r.error) THEN {Val(r.error)} ELSE {}

\* the stages of this item that fell back to their input
Fallbacks ==
    {ran[i].stage \o "-failed" : i \in {j \in 1..Len(ran) : ran[j].failed}}
        \cup (console \cap {"logo-download-failed", "logo-overlay-failed"})

\* C4: every stage that failed and fell back to its input is recorded in the
\* result record of the item.
C4_FallbackIsInResult ==
    outcome = "resolved" => Fallbacks \subseteq Diagnostics(Val(result))

\* an item resolved after a stage fell back to its input
C4_Witness == outcome = "resolved" /\ Fallbacks # {} /\ Val(result).success = Some(TRUE)

\* C5: the stages run in the order gradient, restyle, frame, each at most
\* once; a stage is entered only when the one before it has returned, on that
\* stage's output (the first on the base raster), and at most one stage is in
\* progress.
C5_StagesInOrder ==
    /\ \A i \in 1..Len(ran) : \A j \in 1..Len(ran) :
          i < j => Rank(ran[i].stage) < Rank(ran[j].stage)
    /\ \A i \in 1..Len(ran) :
          /\ i < Len(ran) => /\ IsSet(ran[i].output)
                             /\ ran[i + 1].input = Val(ran[i].output)
          /\ i = 1 => ran[i].input = StyledBase(Options)
          /\ ~IsSet(ran[i].output) => pc = AtStage("running", ran[i].stage)
    /\ pc.at = "running" => /\ ran # <<>>
                            /\ ran[Len(ran)].stage = pc.stage
                            /\ ~IsSet(ran[Len(ran)].output)

\* all three stages have run and completed, and the image is about to be stored
C5_Witness ==
    /\ pc.at = "save"
    /\ Len(ran) = 3
    /\ \A i \in 1..3 : ~ran[i].failed

\* C6: with a logo configured and fetched, the logo overlay is the last
\* raster stage of the image generatePNG returns, whatever the style, gradient
\* and frame.
C6_LogoIsLastStage ==
    (/\ PngReturned
     /\ IsSet(fileData)
     /\ Truthy(customization.logoUrl)
     /\ cfg.logo = "ok") =>
        Val(fileData)[Len(Val(fileData))].stage = "logo"

\* a styled image is returned without the logo that was configured
C6_Witness ==
    /\ PngReturned
    /\ IsSet(fileData)
    /\ Truthy(customization.logoUrl)
    /\ cfg.logo = "ok"
    /\ ran # <<>>
    /\ \A k \in 1..Len(Val(fileData)) : Val(fileData)[k].stage # "logo"

\* C7: when the logo cannot be fetched, generatePNG returns the raster it had
\* before the overlay, and the fetch fails nothing: the item succeeds unless
\* the store write fails.
C7_FetchFailureSkipsLogo ==
    "logo-download-failed" \in console =>
        /\ PngReturned => fileData = Some(StandardBase(customization))
        /\ IsSet(thrown) => Val(thrown) = "store"
        /\ outcome = "resolved" =>
              /\ Val(result).success = Some(cfg.save # "down")
              /\ cfg.save # "down" =>
                    /\ Len(files) = Len(FormatsOf(cfg))
                    /\ files[1].format = "png"
                    /\ files[1].buffer = StandardBase(customization)

\* the fetch failed and the item has succeeded
C7_Witness ==
    /\ "logo-download-failed" \in console
    /\ outcome = "resolved"
    /\ Val(result).success = Some(TRUE)

\* C8: with gradientType 'none', style 'square', frame 'none' and no logo,
\* no stage runs and the image generatePNG returns is the base raster of the
\* generator, pixel for pixel.
C8_DefaultsGiveBaseRaster ==
    (/\ PngReturned
     /\ IsSet(fileData)
     /\ Options.gradientType = "none"
     /\ Options.style = "square"
     /\ Options.frame = "none"
     /\ ~Truthy(customization.logoUrl)) =>
        LET base == StyledBase(Options)
            out == Val(fileData)
        IN  /\ ran = <<>>
            /\ Width(out) = Options.size
            /\ Height(out) = Options.size
            /\ \A x \in Probes(Options.size) : \A y \in Probes(Options.size) :
                  Pixel(out, x, y) = Pixel(base, x, y)

\* the styled generator has returned with style 'square' set and nothing else
C8_Witness ==
    /\ PngReturned
    /\ IsSet(fileData)
    /\ customization.style = Some("square")
    /\ Options.gradientType = "none"
    /\ Options.frame = "none"
    /\ ~Truthy(customization.logoUrl)

\* C9: a completed gradient stage has recoloured exactly the pixels whose
\* luminance is below the threshold; the others keep their colour.
C9_RecolouredIffDarkByLuminance ==
    \A i \in 1..Len(ran) :
        (ran[i].stage = "gradient" /\ IsSet(ran[i].output) /\ ~ran[i].failed) =>
            LET l == Val(ran[i].output)[Len(Val(ran[i].output))]
            IN  \A x \in Probes(l.size) : \A y \in Probes(l.size) :
                    LET before == Pixel(ran[i].input, x, y)
                    IN  Pixel(Val(ran[i].output), x, y) =
                            IF Luminance(before) < DarkThreshold
                            THEN InterpolateColors(l.colors,
                                    GradientPosition(l.kind, l.size, x, y))
                            ELSE before

\* a gradient stage has completed on a code with a light cyan background
C9_Witness ==
    /\ cfg.palette = "cyan"
    /\ \E i \in 1..Len(ran) :
          ran[i].stage = "gradient" /\ IsSet(ran[i].output) /\ ~ran[i].failed

\* the red, green and blue of a value interpolateColors returned, as
\* Jimp.intToRGBA and setPixelColor read it
Rgb(i) == <<IntToRGBA(i).r, IntToRGBA(i).g, IntToRGBA(i).b>>

\* v lies between a and b
Between(v, a, b) == Min(a, b) <= v /\ v <= Max(a, b)

\* C10: for stops [c0, c1], interpolateColors gives c0 at position 0 and c1
\* at position 1, and for positions p <= q in [0, 1] every channel at p and at
\* q lies on the way from c0's channel to c1's, q's no nearer to c0 than p's.
C10_EndpointsExactAndMonotonic ==
    (interp.phase = "done" /\ Len(interp.colors) = 2) =>
        LET c0 == interp.colors[1]
            c1 == interp.colors[2]
            p == interp.p
            q == interp.q
            atP == Rgb(Val(interp.outP))
            atQ == Rgb(Val(interp.outQ))
        IN  /\ p.num = 0 => atP = c0
            /\ q.num = q.den => atQ = c1
            /\ (p.num >= 0 /\ q.num <= q.den) =>
                  \A ch \in 1..3 :
                      /\ Between(atP[ch], c0[ch], c1[ch])
                      /\ Between(atQ[ch], atP[ch], c1[ch])

\* interpolateColors has been applied at position 0 to stops that begin with red
C10_Witness ==
    /\ interp.phase = "done"
    /\ Len(interp.colors) = 2
    /\ interp.p.num = 0
    /\ interp.colors[1] = Red
    /\ Rgb(Val(interp.outP)) # Red

(***************************************************************************)
(* applyGradient's loop body down one column of dark pixels                *)
(***************************************************************************)
MaxHeight == 100        \* columns of 1..MaxHeight pixels

ColumnStops == {<<Black, White>>, <<White, Black>>, <<Red, Blue>>}
ColumnInks == {Black, Blue}         \* dark colours: their red channel is 0

\* the gradient applied to an image of `height` pixels a side
ColumnLayer(height, colors) ==
    [Layer("gradient", "linear-vertical", height) EXCEPT
        !.colors = colors, !.rows = height]

InitColumn ==
    /\ cfg = Plain
    /\ InitItem
    /\ interp = IdleInterp
    /\ delivery = Idle
    /\ scan = Idle
    /\ run = Idle
    /\ \E h \in 1..MaxHeight : \E cs \in ColumnStops : \E ink \in ColumnInks :
        column = [phase |-> "input", height |-> h, colors |-> cs, ink |-> ink,
                  out |-> <<>>]

\* the loop over y at x = 0; out[y + 1] is the pixel of row y
ApplyColumn ==
    /\ column.phase = "input"
    /\ column' = [column EXCEPT
                    !.phase = "done",
                    !.out = [k \in 1..column.height |->
                                GradientPixel(ColumnLayer(column.height, column.colors),
                                              CssPixel(column.ink), 0, k - 1)]]
    /\ UNCHANGED <<itemVars, interp, scan, run, delivery>>

NextColumn == ApplyColumn

SpecColumn == InitColumn /\ [][NextColumn]_vars

\* every channel of a is within 1 of the channel of b
Near(a, b) == \A ch \in 1..3 : a[ch] - b[ch] \in {-1, 0, 1}

\* C11: a linear-vertical gradient from '#000000' to '#FFFFFF' down a column
\* of 100 dark pixels gives (0,0,0) at y = 0 and (255,255,255) at y = 99,
\* each channel within 1.
C11_ColumnReachesBothStops ==
    (/\ column.phase = "done"
     /\ column.height = 100
     /\ column.colors = <<Black, White>>) =>
        /\ Near(Rgb(column.out[1]), Black)
        /\ Near(Rgb(column.out[100]), White)

\* the 100-pixel column has been recoloured and its last pixel is (252,252,252)
C11_Witness ==
    /\ column.phase = "done"
    /\ column.height = 100
    /\ column.colors = <<Black, White>>
    /\ Rgb(column.out[100]) = <<252, 252, 252>>

\* applyAdvancedStyle's classification of a pixel
IsDark(pixel) == IntToRGBA(pixel).r < DarkThreshold

\* the centres of the modules applyAdvancedStyle scans in a raster of n pixels
ModuleCentres(n) ==
    LET ms == ModuleSize(n)
        at == {k * ms + ms \div 2 : k \in 0..((n - 1) \div ms)}
    IN  {c \in at \X at : c[1] < n /\ c[2] < n}

\* the centres of the modules that are dark in `input` and not in `output`
LostModules(input, output, n) ==
    {c \in ModuleCentres(n) :
        IsDark(Pixel(input, c[1], c[2])) /\ ~IsDark(Pixel(output, c[1], c[2]))}

\* the completed restyling stages
Restyled ==
    {i \in 1..Len(ran) :
        ran[i].stage = "style" /\ IsSet(ran[i].output) /\ ~ran[i].failed}

\* C12: for every supported shape, the centre pixel of every module that is
\* dark in the input of applyAdvancedStyle is still dark in its output.
C12_DarkCentresStayDark ==
    \A i \in Restyled :
        Options.style \in KnownStyles =>
            LostModules(ran[i].input, Val(ran[i].output), Options.size) = {}

\* a restyling with dots has completed and a dark module's centre has gone light
C12_Witness ==
    \E i \in Restyled :
        /\ Options.style = "dots"
        /\ cfg.palette = "plain"
        /\ Len(ran[i].input) = 1
        /\ LostModules(ran[i].input, Val(ran[i].output), Options.size) # {}

\* the completed framing stages
Framed ==
    {i \in 1..Len(ran) :
        ran[i].stage = "frame" /\ IsSet(ran[i].output) /\ ~ran[i].failed}

\* the rows applyFrame adds for the caption
CaptionSpace == IF Options.frameText # "" THEN TextSpace ELSE 0

\* C13 (as the code has it): applyFrame turns a raster of width w and height
\* h into one of width w + 2 * frameWidth and height h + 2 * frameWidth +
\* textSpace, with frameWidth = floor(0.1 * w) and textSpace = 60 exactly
\* when the caption is not empty, 0 otherwise.
C13_FrameDimensionsFloor ==
    \A i \in Framed :
        LET w == Width(ran[i].input)
            h == Height(ran[i].input)
            out == Val(ran[i].output)
        IN  /\ Width(out) = w + 2 * (w \div 10)
            /\ Height(out) = h + 2 * (w \div 10) + CaptionSpace

\* C13 (as stated): the same, with frameWidth = round(0.1 * w).
C13_FrameDimensionsRound ==
    \A i \in Framed :
        LET w == Width(ran[i].input)
            h == Height(ran[i].input)
            out == Val(ran[i].output)
        IN  /\ Width(out) = w + 2 * ((w + 5) \div 10)
            /\ Height(out) = h + 2 * ((w + 5) \div 10) + CaptionSpace

\* a frame with a caption has been put around a raster whose width, divided
\* by 10, leaves 5 or more
C13_Witness ==
    \E i \in Framed :
        /\ Options.frameText # ""
        /\ Width(ran[i].input) % 10 >= 5
        /\ Height(Val(ran[i].output)) > Width(Val(ran[i].output))

(***************************************************************************)
(* applyAdvancedStyle(qrBuffer, style, size): the module-scanning loops     *)
(***************************************************************************)
ScanSizes == 1..(ModuleDivisor + Scale) \cup {Size}
ScanStyles == KnownStyles \ {"square"}

InitScan ==
    /\ cfg = Plain
    /\ InitItem
    /\ interp = IdleInterp
    /\ delivery = Idle
    /\ column = Idle
    /\ run = Idle
    /\ \E n \in ScanSizes : \E st \in ScanStyles :
        scan = [phase |-> "read", size |-> n, style |-> st, moduleSize |-> 0,
                x |-> 0, y |-> 0, turns |-> 0]

\* Jimp.read, moduleSize, the blank image, and the heads of the two loops
ScanBegin ==
    /\ scan.phase = "read"
    /\ scan' = [scan EXCEPT !.phase = "loops",
                            !.moduleSize = ModuleSize(scan.size),
                            !.x = 0, !.y = 0]
    /\ UNCHANGED <<itemVars, interp, column, run, delivery>>

\* one turn of the inner loop: the module at (x, y) is sampled and drawn, then
\* x += moduleSize; turns is the parity of the number of turns taken
ScanModule ==
    /\ scan.phase = "loops"
    /\ scan.y < scan.size
    /\ scan.x < scan.size
    /\ scan' = [scan EXCEPT !.x = scan.x + scan.moduleSize,
                            !.turns = (scan.turns + 1) % 2]
    /\ UNCHANGED <<itemVars, interp, column, run, delivery>>

\* the inner loop is over: y += moduleSize, and x = 0 again
ScanRowEnd ==
    /\ scan.phase = "loops"
    /\ scan.y < scan.size
    /\ scan.x >= scan.size
    /\ scan' = [scan EXCEPT !.y = scan.y + scan.moduleSize, !.x = 0]
    /\ UNCHANGED <<itemVars, interp, column, run, delivery>>

\* the outer loop is over: return await styledImage.getBufferAsync(...)
ScanReturn ==
    /\ scan.phase = "loops"
    /\ scan.y >= scan.size
    /\ scan' = [scan EXCEPT !.phase = "returned"]
    /\ UNCHANGED <<itemVars, interp, column, run, delivery>>

NextScan ==
    \/ ScanBegin
    \/ ScanModule
    \/ ScanRowEnd
    \/ ScanReturn

\* the stage is not interrupted: it keeps taking steps while it has one to take
SpecScan == InitScan /\ [][NextScan]_vars /\ WF_vars(NextScan)

\* C14: for every positive raster size and every style, the loops of
\* applyAdvancedStyle terminate: the stage eventually returns a buffer.
C14_RestyleReturns == <>(scan.phase = "returned")

\* the inner loop has taken a turn without advancing
C14_Witness ==
    /\ scan.phase = "loops"
    /\ scan.moduleSize = 0
    /\ scan.turns = 1
    /\ scan.x = 0
    /\ scan.y = 0

(***************************************************************************)
(* Actor.main: the run over the chunks of items                            *)
(***************************************************************************)
MaxItems == 3               \* a run has 1..MaxItems items of any kind, or
MaxPlain == 7               \* 1..MaxPlain items that all are plain
MaxConc == 2                \* input.maxConcurrency is omitted or in 1..MaxConc
DefaultConcurrency == 10    \* input.maxConcurrency || 10

\* an item of qrCodes: "plain" has a type and no id, "a" has the id 'a',
\* "notype" has no type, "toolong" has a content the generator rejects
ItemKinds == {"plain", "a", "notype", "toolong"}

RECURSIVE ItemLists(_)
ItemLists(n) ==
    IF n = 0 THEN {<<>>}
    ELSE {Append(l, k) : l \in ItemLists(n - 1), k \in ItemKinds}

\* a variant of the index handed to processQRCode that counts within the chunk
IndexInChunk(processedCount, idx) == idx

\* processedCount + idx: the index Actor.main hands to processQRCode
ItemIndex(processedCount, idx) == processedCount + idx

\* qrConfig.id || `qr-${index + 1}`, for the item at position i of qrCodes
\* when processQRCode is given `index`
RunItemId(items, i, index) ==
    IF items[i] = "a" THEN "a" ELSE "qr-" \o ToString(index + 1)

\* `${input.filenamePrefix || 'qr-code'}-${id}.${format}`, the format being png
RunFilename(items, i, index) ==
    "qr-code" \o "-" \o RunItemId(items, i, index) \o "." \o "png"

\* the elements of a set of positions in ascending order (the order of a slice)
RECURSIVE InOrder(_)
InOrder(S) ==
    IF S = {} THEN <<>>
    ELSE LET least == CHOOSE i \in S : \A j \in S : i <= j
         IN  <<least>> \o InOrder(S \ {least})

\* a variant of chunkArray whose slices hold one item more
ChunkArrayOneMore(n, chunkSize) ==
    [k \in 1..((n + chunkSize) \div (chunkSize + 1)) |->
        {i \in 1..n : (i - 1) \div (chunkSize + 1) = k - 1}]

\* chunkArray(array, chunkSize), on the positions 1..n of the array
ChunkArray(n, chunkSize) ==
    [k \in 1..((n + chunkSize - 1) \div chunkSize) |->
        {i \in 1..n : (i - 1) \div chunkSize = k - 1}]

\* const maxConcurrency = input.maxConcurrency || 10
MaxConcurrency == IF run.maxConcurrency = 0 THEN DefaultConcurrency ELSE run.maxConcurrency

Chunks == ChunkArray(Len(run.items), MaxConcurrency)

\* the runs of plain items only, up to n items
RECURSIVE PlainLists(_)
PlainLists(n) ==
    IF n = 0 THEN {} ELSE PlainLists(n - 1) \cup {[i \in 1..n |-> "plain"]}

\* input.qrCodes
ItemInputs == UNION {ItemLists(n) : n \in 1..MaxItems} \cup PlainLists(MaxPlain)

\* webhookManager.send / notify...: nothing is sent without input.webhookUrl;
\* an event that is not about an item has item 0, and only
\* generation.progress carries the counts processed and total
RunSend(hooks, event, item) ==
    IF run.webhook
    THEN Append(hooks, [event |-> event, item |-> item, processed |-> 0, total |-> 0])
    ELSE hooks

\* webhookManager.notifyProgress(processed, total, runId)
NotifyProgress(hooks, processed, total) ==
    IF run.webhook
    THEN Append(hooks, [event |-> "generation.progress", item |-> 0,
                        processed |-> processed, total |-> total])
    ELSE hooks

\* what Actor.getInput() gives: nothing, an object with neither qrCodes nor
\* batchImport, or an object with qrCodes
InputShapes == {"null", "empty", "qrCodes"}

\* the errors Actor.main ends with
InvalidInputError ==
    "Invalid input: either qrCodes array or batchImport configuration is required"
NullReadError == "TypeError"

InitRun ==
    /\ cfg = Plain
    /\ InitItem
    /\ interp = IdleInterp
    /\ delivery = Idle
    /\ column = Idle
    /\ scan = Idle
    /\ \E shape \in InputShapes : \E items \in ItemInputs \cup {<<>>} :
       \E m \in 0..MaxConc : \E hook \in BOOLEAN :
       \E post \in SUBSET {"validate", "zip"} :
        \* only an input with qrCodes has items
        /\ shape = "qrCodes" <=> items # <<>>
        \* a missing input has no field
        /\ shape = "null" => m = 0 /\ ~hook /\ post = {}
        \* the long runs are taken one item at a time
        /\ Len(items) > MaxItems => m = 1
        /\ run = [phase |-> "input", shape |-> shape, items |-> items,
                  maxConcurrency |-> m,
                  webhook |-> hook, post |-> post, chunk |-> 1,
                  status |-> [i \in 1..Len(items) |-> "idle"],
                  index |-> [i \in 1..Len(items) |-> 0],
                  values |-> [i \in 1..Len(items) |-> None],
                  results |-> <<>>, hooks |-> <<>>, writes |-> {},
                  reads |-> <<>>, error |-> None]

\* Actor.getInput(), the webhook manager made from input.webhookUrl, the
\* check of the input; then the start webhook is sent and the chunks are made.
\* reads: the fields of the input read up to the validation, in order
RunStart ==
    /\ run.phase = "input"
    /\ run' =
        IF run.shape = "null"
        THEN \* input.webhookUrl on a null input throws
             [run EXCEPT !.phase = "aborted",
                         !.reads = <<"webhookUrl">>,
                         !.error = Some(NullReadError)]
        ELSE IF run.shape = "empty"
        THEN [run EXCEPT !.phase = "aborted",
                         !.reads = <<"webhookUrl", "qrCodes", "batchImport">>,
                         !.error = Some(InvalidInputError)]
        ELSE [run EXCEPT !.phase = "chunks", !.chunk = 1,
                         !.reads = <<"webhookUrl", "qrCodes">>,
                         !.hooks = RunSend(run.hooks, "generation.started", 0)]
    /\ UNCHANGED <<itemVars, interp, column, scan, delivery>>

\* chunk.map(... processQRCode(...)): every item of the chunk is started, with
\* the index processedCount + idx; the promise of an item without a type is
\* rejected from the start
StartChunk ==
    /\ run.phase = "chunks"
    /\ run.chunk <= Len(Chunks)
    /\ run' = [run EXCEPT
                !.phase = "awaiting",
                !.index = [i \in DOMAIN run.index |->
                              IF i \in Chunks[run.chunk]
                              THEN LET slice == InOrder(Chunks[run.chunk])
                                       idx == CHOOSE j \in 1..Len(slice) : slice[j] = i
                                   IN  ItemIndex(Len(run.results), idx - 1)
                              ELSE run.index[i]],
                !.status = [i \in DOMAIN run.status |->
                              IF i \in Chunks[run.chunk]
                              THEN IF run.items[i] = "notype" THEN "rejected"
                                   ELSE "running"
                              ELSE run.status[i]]]
    /\ UNCHANGED <<itemVars, interp, column, scan, delivery>>

\* processQRCode of item i comes to its end: the file is stored and
\* qrcode.created sent, or the generator has thrown and qrcode.failed is sent
ItemSettle(i) ==
    /\ run.phase \in {"awaiting", "aborted"}
    /\ run.status[i] = "running"
    /\ run' = [run EXCEPT
                !.status[i] = "resolved",
                !.values[i] = Some([id |-> RunItemId(run.items, i, run.index[i]),
                                    item |-> i,
                                    success |-> run.items[i] # "toolong"]),
                !.writes = IF run.items[i] = "toolong" THEN run.writes
                           ELSE run.writes \cup
                                    {<<RunFilename(run.items, i, run.index[i]), i>>},
                !.hooks = RunSend(run.hooks,
                                  IF run.items[i] = "toolong" THEN "qrcode.failed"
                                  ELSE "qrcode.created", i)]
    /\ UNCHANGED <<itemVars, interp, column, scan, delivery>>

\* Promise.all resolves with the values in the order of the promises:
\* results.push(...chunkResults), progress is reported, and the loop goes to
\* the next chunk or ends with Actor.pushData
ChunkResolve ==
    /\ run.phase = "awaiting"
    /\ \A i \in Chunks[run.chunk] : run.status[i] = "resolved"
    /\ LET processed == Len(run.results) + Cardinality(Chunks[run.chunk])
           total == Len(run.items)
           chunkIndex == run.chunk - 1
           slice == InOrder(Chunks[run.chunk])
           chunkResults == [j \in 1..Len(slice) |-> Val(run.values[slice[j]])]
           kept == run.results \o chunkResults
       IN  run' = [run EXCEPT
                    !.results = kept,
                    !.hooks = IF chunkIndex % 5 = 0 \/ processed = total
                              THEN NotifyProgress(run.hooks, processed, total)
                              ELSE run.hooks,
                    !.chunk = run.chunk + 1,
                    !.phase = IF run.chunk = Len(Chunks) THEN "collected"
                              ELSE "chunks"]
    /\ UNCHANGED <<itemVars, interp, column, scan, delivery>>

\* Promise.all rejects: Actor.main's function throws
ChunkReject ==
    /\ run.phase = "awaiting"
    /\ \E i \in Chunks[run.chunk] : run.status[i] = "rejected"
    /\ run' = [run EXCEPT !.phase = "aborted", !.error = Some(NullReadError)]
    /\ UNCHANGED <<itemVars, interp, column, scan, delivery>>

\* the process exits after the failure; the items still in flight are lost
Exit ==
    /\ run.phase = "aborted"
    /\ run' = [run EXCEPT !.phase = "exited"]
    /\ UNCHANGED <<itemVars, interp, column, scan, delivery>>

\* if (input.validateQRCodes) { ... send('validation.completed') }
Validate ==
    /\ run.phase = "collected"
    /\ run' = [run EXCEPT
                !.phase = "validated",
                !.hooks = IF "validate" \in run.post
                          THEN RunSend(run.hooks, "validation.completed", 0)
                          ELSE run.hooks]
    /\ UNCHANGED <<itemVars, interp, column, scan, delivery>>

\* if (input.exportZip) { ... send('export.ready') }
ExportZip ==
    /\ run.phase = "validated"
    /\ run' = [run EXCEPT
                !.phase = "exported",
                !.hooks = IF "zip" \in run.post
                          THEN RunSend(run.hooks, "export.ready", 0)
                          ELSE run.hooks]
    /\ UNCHANGED <<itemVars, interp, column, scan, delivery>>

\* the summary, OUTPUT, and webhookManager.notifyComplete
Complete ==
    /\ run.phase = "exported"
    /\ run' = [run EXCEPT
                !.phase = "finished",
                !.hooks = RunSend(run.hooks, "generation.completed", 0)]
    /\ UNCHANGED <<itemVars, interp, column, scan, delivery>>

NextRun ==
    \/ RunStart
    \/ StartChunk
    \/ \E i \in DOMAIN run.status : ItemSettle(i)
    \/ ChunkResolve
    \/ ChunkReject
    \/ Exit
    \/ Validate
    \/ ExportZip
    \/ Complete

SpecRun == InitRun /\ [][NextRun]_vars

\* the items whose processQRCode has been called and has not settled
InFlight == {i \in DOMAIN run.status : run.status[i] = "running"}

\* C15: never more than maxConcurrency (default 10) invocations of
\* processQRCode are in flight, and no item of a later chunk has been started
\* while an item of an earlier chunk has not completed.
C15_BoundedInFlight ==
    /\ Cardinality(InFlight) <= MaxConcurrency
    /\ \A i \in DOMAIN run.status : \A j \in DOMAIN run.status :
          (/\ (i - 1) \div MaxConcurrency < (j - 1) \div MaxConcurrency
           /\ run.status[j] # "idle") => run.status[i] = "resolved"

\* as many items are in flight as maxConcurrency allows, and one more waits
C15_Witness ==
    /\ run.maxConcurrency = 2
    /\ Len(run.items) = 3
    /\ Cardinality(InFlight) = 2
    /\ run.status[3] = "idle"

\* C16: no key-value-store record is written by two items of a run.
C16_NoRecordWrittenTwice ==
    \A w \in run.writes : \A v \in run.writes : w[1] = v[1] => w[2] = v[2]

\* two items with the same id have both stored their file
C16_Witness ==
    /\ Len(run.items) >= 2
    /\ run.items[1] = "a"
    /\ run.items[2] = "a"
    /\ {<<RunFilename(run.items, 1, run.index[1]), 1>>,
        <<RunFilename(run.items, 2, run.index[2]), 2>>} \subseteq run.writes

\* the positions of the events named e among the webhook events sent
HookPositions(e) == {k \in 1..Len(run.hooks) : run.hooks[k].event = e}

\* the run has ended
RunOver == run.phase \in {"finished", "exited"}

\* C17: with a webhook, one generation.started is sent, before every item
\* event; one generation.completed is sent, after the event of every item and
\* after validation.completed and export.ready, and nothing after it.
C17_WebhookEventOrder ==
    run.webhook =>
        /\ run.phase # "input" =>
              /\ HookPositions("generation.started") = {1}
        /\ Cardinality(HookPositions("generation.completed")) <= 1
        /\ \A k \in HookPositions("generation.completed") :
              /\ k = Len(run.hooks)
              /\ \A i \in DOMAIN run.items :
                    \E j \in 1..(k - 1) :
                        /\ run.hooks[j].item = i
                        /\ run.hooks[j].event \in {"qrcode.created", "qrcode.failed"}
        /\ RunOver => HookPositions("generation.completed") # {}

\* a run with a webhook has ended after generation.started and without
\* generation.completed
C17_Witness ==
    /\ run.phase = "exited"
    /\ run.webhook
    /\ HookPositions("generation.started") = {1}
    /\ HookPositions("generation.completed") = {}

\* the formats under which the result record holds a file
FilesOf(r) == {Val(r.files)[k].format : k \in 1..Len(Val(r.files))}

\* C18: when outputFormat is omitted, every successfully processed item has a
\* PNG file under files.png.
C18_OmittedFormatGivesPng ==
    (/\ outcome = "resolved"
     /\ cfg.outputFormat = ""
     /\ Val(result).success = Some(TRUE)) => "png" \in FilesOf(Val(result))

\* an item has succeeded without outputFormat and its files map is empty
C18_Witness ==
    /\ outcome = "resolved"
    /\ cfg.outputFormat = ""
    /\ Val(result).success = Some(TRUE)
    /\ Val(result).files = Some(<<>>)
    /\ store = {}

\* the template named by the input, when there is one
TemplateOf(c) ==
    IF c.template # "" /\ IsSet(GetTemplate(c.template))
    THEN Val(GetTemplate(c.template)) ELSE NoCustomization

\* C19: the effective value of every customization key is the item's own
\* value when the item sets the key, otherwise the global value when set,
\* otherwise the template's.
C19_ItemOverGlobalOverTemplate ==
    pc.at # "start" =>
        \A k \in CustKeys :
            customization[k] =
                IF IsSet(ItemCustomization(cfg)[k]) THEN ItemCustomization(cfg)[k]
                ELSE IF IsSet(GlobalCustomization(cfg)[k]) THEN GlobalCustomization(cfg)[k]
                ELSE TemplateOf(cfg)[k]

\* the item's style has overridden the global one, and the global frame is
\* used because the item sets none
C19_Witness ==
    /\ pc.at # "start"
    /\ IsSet(ItemCustomization(cfg).style)
    /\ IsSet(GlobalCustomization(cfg).style)
    /\ ItemCustomization(cfg).style # GlobalCustomization(cfg).style
    /\ customization.style = ItemCustomization(cfg).style
    /\ ~IsSet(ItemCustomization(cfg).frame)
    /\ customization.frame = GlobalCustomization(cfg).frame
    /\ IsSet(customization.frame)

\* C20: for n >= 2 stops and 0 < p < 1, interpolateColors takes the stop of
\* index floor(p * (n - 1)) and the next one (never beyond n - 1), and every
\* channel of the result lies between the channels of the two; p <= 0 gives
\* the first stop and p >= 1 the last.
C20_StopsAndClamps ==
    interp.phase = "done" =>
        LET stops == interp.colors
            n == Len(stops)
            p == interp.p
            out == Rgb(Val(interp.outP))
            lower == (p.num * (n - 1)) \div p.den
            upper == Min(lower + 1, n - 1)
        IN  /\ p.num <= 0 => out = stops[1]
            /\ p.num >= p.den => out = stops[n]
            /\ (0 < p.num /\ p.num < p.den) =>
                  \A ch \in 1..3 :
                      Between(out[ch], stops[lower + 1][ch], stops[upper + 1][ch])

\* interpolateColors has been applied at position 1 to three stops that end
\* with blue, and the result does not read as blue
C20_Witness ==
    /\ interp.phase = "done"
    /\ Len(interp.colors) = 3
    /\ interp.colors[3] = Blue
    /\ interp.p.num = interp.p.den
    /\ Rgb(Val(interp.outP)) # Blue

\* the gradient is configured with one colour stop and a type other than 'none'
SingleStop(o) ==
    /\ o.gradientType # "none"
    /\ IsSet(o.gradientColors)
    /\ Len(Val(o.gradientColors)) = 1

\* the pixels of the probes that are dark in the base raster of the item
DarkProbes(o) ==
    {c \in Probes(o.size) \X Probes(o.size) : IsDark(Pixel(StyledBase(o), c[1], c[2]))}

\* C21: with exactly one colour stop and a gradient type other than 'none',
\* every dark pixel of the code is recoloured to that stop (no restyling and
\* no frame being configured).
C21_SingleStopIsFlatRecolour ==
    (/\ StyledOver
     /\ PngReturned
     /\ SingleStop(Options)
     /\ Options.style = "square"
     /\ Options.frame = "none") =>
        \A c \in DarkProbes(Options) :
            Pixel(Val(fileData), c[1], c[2]) = CssPixel(Val(Options.gradientColors)[1])

\* the styled generator has returned for a one-stop gradient without having
\* entered a stage, and a dark pixel still has the foreground colour
C21_Witness ==
    /\ StyledOver
    /\ PngReturned
    /\ SingleStop(Options)
    /\ Options.style = "square"
    /\ Options.frame = "none"
    /\ ran = <<>>
    /\ DarkProbes(Options) # {}
    /\ \E c \in DarkProbes(Options) :
          Pixel(Val(fileData), c[1], c[2]) = CssPixel(Options.foregroundColor)

\* applyAdvancedStyle on `input`: does the call of drawStyledModule for the
\* module of pixel (x, y) set that pixel
DrawnAt(input, style, n, x, y) ==
    LET ms == ModuleSize(n)
        mx == x - (x % ms)
        my == y - (y % ms)
    IN  /\ IsDark(Pixel(input, mx + ms \div 2, my + ms \div 2))
        /\ ModuleCovers(style, ms, x - mx, y - my)

\* the probed pixels that no module shape covers
Uncovered(input, style, n) ==
    {c \in Probes(n) \X Probes(n) : ~DrawnAt(input, style, n, c[1], c[2])}

\* C22: after a restyling with a shape other than square, every pixel that
\* no drawn module shape covers has the background colour of the code,
\* whatever backgroundColor is configured.
C22_UncoveredIsBackground ==
    \A i \in Restyled :
        Options.style \in KnownStyles \ {"square"} =>
            \A c \in Uncovered(ran[i].input, Options.style, Options.size) :
                Pixel(Val(ran[i].output), c[1], c[2]) = CssPixel(Options.backgroundColor)

\* a code on a yellow background has been restyled with dots, and a pixel of
\* a light module that was yellow is white
C22_Witness ==
    \E i \in Restyled :
        /\ Options.style = "dots"
        /\ Options.backgroundColor = Yellow
        /\ \E c \in Uncovered(ran[i].input, "dots", Options.size) :
              /\ Pixel(ran[i].input, c[1], c[2]) = CssPixel(Yellow)
              /\ Pixel(Val(ran[i].output), c[1], c[2]) = BlankPixel

\* the pixels of the box of the module whose centre is c
ModuleBox(c, n) ==
    LET ms == ModuleSize(n)
        x0 == c[1] - ms \div 2
        y0 == c[2] - ms \div 2
    IN  {b \in (x0..(x0 + ms - 1)) \X (y0..(y0 + ms - 1)) : b[1] < n /\ b[2] < n}

\* the modules applyAdvancedStyle draws in a dark colour: centre and origin dark
InkedModules(input, n) ==
    {c \in ModuleCentres(n) :
        /\ IsDark(Pixel(input, c[1], c[2]))
        /\ IsDark(Pixel(input, c[1] - ModuleSize(n) \div 2, c[2] - ModuleSize(n) \div 2))}

\* the modules of which every pixel of the box has been set
FilledSquares(input, output, n) ==
    {c \in InkedModules(input, n) :
        \A b \in ModuleBox(c, n) : IsDark(Pixel(output, b[1], b[2]))}

\* C23: with 'extra-rounded' or 'classy', a dark module is drawn with rounded
\* corners: some pixel of its box is left undrawn, the module is not filled
\* as a full square.
C23_CornersLeftUndrawn ==
    \A i \in Restyled :
        Options.style \in {"extra-rounded", "classy"} =>
            FilledSquares(ran[i].input, Val(ran[i].output), Options.size) = {}

\* a black-on-white code has been restyled with 'classy' and every dark
\* module has been filled as a full square
C23_Witness ==
    \E i \in Restyled :
        /\ Options.style = "classy"
        /\ cfg.palette = "plain"
        /\ Len(ran[i].input) = 1
        /\ InkedModules(ran[i].input, Options.size) # {}
        /\ FilledSquares(ran[i].input, Val(ran[i].output), Options.size)
              = InkedModules(ran[i].input, Options.size)

\* the frame styles that add no mask to the canvas
PlainFrames == {"basic", "edge", "banner"}

\* the probed pixels of a canvas of w x h pixels outside the region of n x n
\* pixels at offset fw
BorderProbes(w, h, fw, n) ==
    {c \in Probes(w) \X Probes(h) :
        ~(c[1] >= fw /\ c[1] < fw + n /\ c[2] >= fw /\ c[2] < fw + n)}

\* the probed pixels of the input that the framed canvas does not show as they are
AlteredByFrame(input, output, n) ==
    {c \in Probes(n) \X Probes(n) :
        Pixel(output, FrameWidth(n) + c[1], FrameWidth(n) + c[2]) # Pixel(input, c[1], c[2])}

\* C24: for the frames basic, edge and banner, the pixel of the canvas at
\* (frameWidth + i, frameWidth + j) equals the pixel (i, j) of the input
\* raster, and every pixel of the border has the frame colour.
C24_CentralRegionUnaltered ==
    \A i \in Framed :
        Options.frame \in PlainFrames =>
            LET out == Val(ran[i].output)
                n == Options.size
            IN  /\ AlteredByFrame(ran[i].input, out, n) = {}
                /\ \A c \in BorderProbes(Width(out), Height(out), FrameWidth(n), n) :
                      Pixel(out, c[1], c[2]) = CssPixel(Options.frameColor)

\* a basic frame has been put around a raster whose top row the gradient
\* left transparent, and the canvas shows the frame colour there
C24_Witness ==
    \E i \in Framed :
        /\ Options.frame = "basic"
        /\ \E c \in AlteredByFrame(ran[i].input, Val(ran[i].output), Options.size) :
              /\ IntToRGBA(Pixel(ran[i].input, c[1], c[2])).a = 0
              /\ Pixel(Val(ran[i].output), FrameWidth(Options.size) + c[1],
                       FrameWidth(Options.size) + c[2]) = CssPixel(Options.frameColor)

\* the generation.progress events sent so far, in order
IsProgress(h) == h.event = "generation.progress"
ProgressEvents == SelectSeq(run.hooks, IsProgress)

\* the chunks whose Promise.all has resolved, by index
ChunksDone == 0..(run.chunk - 2)

\* processedCount after the chunk of index c
ProcessedAfter(c) == Min((c + 1) * MaxConcurrency, Len(run.items))

\* C25: a generation.progress event is sent after the chunks of index 0, 5,
\* 10, ... and after the last chunk; the processed counts of the events
\* increase strictly and never exceed the total, and when the run is over its
\* last progress event reports processed = total, which no other event does.
C25_ProgressCadence ==
    run.webhook =>
        LET P == ProgressEvents
            total == Len(run.items)
        IN  /\ {P[k].processed : k \in 1..Len(P)} =
                  {ProcessedAfter(c) : c \in {d \in ChunksDone :
                        d % 5 = 0 \/ ProcessedAfter(d) = total}}
            /\ \A k \in 1..Len(P) :
                  /\ P[k].processed <= total
                  /\ P[k].total = total
                  /\ k > 1 => P[k - 1].processed < P[k].processed
            /\ Cardinality({k \in 1..Len(P) : P[k].processed = total}) <= 1
            /\ RunOver => /\ P # <<>>
                          /\ P[Len(P)].processed = total

\* a run with a webhook has ended on an item without a type: its last
\* progress event reports fewer items than the total
C25_Witness ==
    /\ run.webhook
    /\ run.phase = "exited"
    /\ ProgressEvents # <<>>
    /\ ProgressEvents[Len(ProgressEvents)].processed < Len(run.items)

\* the alpha setPixelColor gives a pixel set to a value of interpolateColors
AlphaOf(i) == IntToRGBA(i).a

\* C26: every value interpolateColors returns, at the positions p <= 0 and
\* p >= 1 too, is a pixel value with alpha 255: a pixel set to it is opaque.
C26_ReturnsOpaquePixels ==
    interp.phase = "done" =>
        /\ AlphaOf(Val(interp.outP)) = Opaque
        /\ AlphaOf(Val(interp.outQ)) = Opaque

\* interpolateColors has been applied at a position p <= 0 to stops that
\* begin with red, and the value it returned reads as a transparent green
C26_Witness ==
    /\ interp.phase = "done"
    /\ interp.p.num <= 0
    /\ interp.colors[1] = Red
    /\ IntToRGBA(Val(interp.outP)) = [r |-> 0, g |-> 255, b |-> 0, a |-> 0]

(***************************************************************************)
(* sendWebhook(webhookUrl, event, data, retries)                           *)
(***************************************************************************)
MaxRetries == 4             \* retries is in 0..MaxRetries
BackoffBase == 1000         \* 1000 * Math.pow(2, attempt - 1)

\* EVENT_TYPES
EventTypes == {"generation.started", "generation.progress", "generation.completed",
               "generation.failed", "qrcode.created", "qrcode.failed",
               "batch.completed", "validation.completed", "export.ready"}

\* the value the promise of sendWebhook resolves with: an object with the flag
\* sent, or undefined (none)
Resolved(sent) == Some([sent |-> sent])
Undefined == None

InitHook ==
    /\ cfg = Plain
    /\ InitItem
    /\ interp = IdleInterp
    /\ column = Idle
    /\ scan = Idle
    /\ run = Idle
    /\ \E url \in {"", "https://hook"} : \E e \in EventTypes : \E n \in 0..MaxRetries :
        delivery = [phase |-> "call", url |-> url, event |-> e, retries |-> n,
                    attempt |-> 0, posts |-> 0, succeeded |-> FALSE,
                    waits |-> <<>>, value |-> Undefined]

\* if (!webhookUrl) return {sent: false, ...}; the payload; let attempt = 1
HookEnter ==
    /\ delivery.phase = "call"
    /\ delivery' = IF delivery.url = ""
                   THEN [delivery EXCEPT !.phase = "resolved", !.value = Resolved(FALSE)]
                   ELSE [delivery EXCEPT !.phase = "loop", !.attempt = 1]
    /\ UNCHANGED <<itemVars, interp, column, scan, run>>

\* the head of the loop: attempt <= retries; when it is false the function
\* comes to its end without a return statement
HookLoopHead ==
    /\ delivery.phase = "loop"
    /\ delivery' = IF delivery.attempt <= delivery.retries
                   THEN [delivery EXCEPT !.phase = "posting"]
                   ELSE [delivery EXCEPT !.phase = "resolved", !.value = Undefined]
    /\ UNCHANGED <<itemVars, interp, column, scan, run>>

\* await axios.post(...): it answers, or it throws into the catch block
HookPost ==
    /\ delivery.phase = "posting"
    /\ \E ok \in BOOLEAN :
        delivery' =
            IF ok
            THEN [delivery EXCEPT !.posts = delivery.posts + 1,
                                  !.succeeded = TRUE,
                                  !.phase = "resolved",
                                  !.value = Resolved(TRUE)]
            ELSE IF delivery.attempt = delivery.retries
            THEN [delivery EXCEPT !.posts = delivery.posts + 1,
                                  !.phase = "resolved",
                                  !.value = Resolved(FALSE)]
            ELSE [delivery EXCEPT !.posts = delivery.posts + 1,
                                  !.phase = "waiting"]
    /\ UNCHANGED <<itemVars, interp, column, scan, run>>

\* await new Promise(resolve => setTimeout(resolve, 1000 * Math.pow(2, attempt - 1)))
\* and attempt++
HookBackoff ==
    /\ delivery.phase = "waiting"
    /\ delivery' = [delivery EXCEPT
                      !.waits = Append(delivery.waits,
                                       BackoffBase * 2 ^ (delivery.attempt - 1)),
                      !.attempt = delivery.attempt + 1,
                      !.phase = "loop"]
    /\ UNCHANGED <<itemVars, interp, column, scan, run>>

NextHook ==
    \/ HookEnter
    \/ HookLoopHead
    \/ HookPost
    \/ HookBackoff

SpecHook == InitHook /\ [][NextHook]_vars

\* C27: with a URL and retries = n >= 0, sendWebhook makes at most n
\* attempts and none after a successful one, waits 1000 * 2^(k-1) ms after
\* the k-th failed attempt before the next, and resolves with an object whose
\* flag sent tells whether an attempt succeeded; without a URL it makes no
\* attempt and resolves with sent = false.
C27_AttemptsWaitsAndResult ==
    delivery.phase # "idle" =>
        /\ delivery.posts <= delivery.retries
        /\ delivery.succeeded => delivery.phase = "resolved"
        /\ \A k \in 1..Len(delivery.waits) : delivery.waits[k] = 1000 * 2 ^ (k - 1)
        /\ delivery.phase = "posting" => Len(delivery.waits) = delivery.posts
        /\ delivery.phase = "resolved" =>
              /\ IsSet(delivery.value)
              /\ Val(delivery.value).sent = delivery.succeeded
        /\ delivery.url = "" =>
              /\ delivery.posts = 0
              /\ delivery.phase = "resolved" => delivery.value = Resolved(FALSE)

\* sendWebhook has been called with a URL and retries = 0: it has made no
\* attempt and has resolved with undefined
C27_Witness ==
    /\ delivery.phase = "resolved"
    /\ delivery.url # ""
    /\ delivery.retries = 0
    /\ delivery.posts = 0
    /\ delivery.value = Undefined

\* C28: when the input is missing or has neither qrCodes nor batchImport,
\* the run fails with the error 'Invalid input: either qrCodes array or
\* batchImport configuration is required', no other field of the input having
\* been read, and no webhook is sent and no item generated.
C28_InvalidInputFailsFirst ==
    (run.phase \notin {"idle", "input"} /\ run.shape \in {"null", "empty"}) =>
        /\ run.error =
              Some("Invalid input: either qrCodes array or batchImport configuration is required")
        /\ \A k \in 1..Len(run.reads) : run.reads[k] \in {"qrCodes", "batchImport"}
        /\ run.hooks = <<>>
        /\ run.writes = {}
        /\ run.results = <<>>

\* the run of a missing input has ended with a TypeError, on its first read
C28_Witness ==
    /\ run.phase = "exited"
    /\ run.shape = "null"
    /\ run.error = Some(NullReadError)
    /\ run.reads = <<"webhookUrl">>
    /\ run.hooks = <<>>

\* the loop over the chunks is over
AllChunksProcessed == run.phase \in {"collected", "validated", "exported", "finished"}

\* the positions of the items that have no id of their own
WithoutId == {i \in DOMAIN run.items : run.items[i] # "a"}

\* C29: after all chunks are processed, results holds one record for each
\* item, in the order of the input (result i belongs to item i), whatever
\* maxConcurrency; an item without an id has the id 'qr-(i+1)', i its position
\* in the whole list, so the default ids of distinct items are distinct.
C29_ResultsInInputOrder ==
    AllChunksProcessed =>
        /\ Len(run.results) = Len(run.items)
        /\ \A i \in DOMAIN run.items : run.results[i].item = i
        /\ \A i \in WithoutId : run.results[i].id = "qr-" \o ToString((i - 1) + 1)
        /\ \A i \in WithoutId : \A j \in WithoutId :
              i # j => run.results[i].id # run.results[j].id

\* three items without an id were processed two at a time, the second
\* settled before the first, and the third, alone in its chunk, has the id qr-3
C29_Witness ==
    /\ AllChunksProcessed
    /\ run.maxConcurrency = 2
    /\ Len(run.items) = 3
    /\ WithoutId = {1, 2, 3}
    /\ run.webhook
    /\ \E k \in 1..Len(run.hooks) : \E l \in 1..Len(run.hooks) :
          k < l /\ run.hooks[k].item = 2 /\ run.hooks[l].item = 1
    /\ run.results[3].id = "qr-3"

\* the formats an input asks for: input.outputFormat || 'png', 'all' being
\* the three of them
Requested(c) ==
    IF c.outputFormat = "all" THEN {"png", "svg", "pdf"}
    ELSE IF c.outputFormat = "" THEN {"png"}
    ELSE {c.outputFormat}

\* C30: a result record with success = true holds a file for each format
\* asked for (one, or three for 'all'), its fileUrl is defined when saving to
\* the key-value store is on, and its files map is not empty.
C30_SuccessHasFiles ==
    (outcome = "resolved" /\ Val(result).success = Some(TRUE)) =>
        /\ FilesOf(Val(result)) = Requested(cfg)
        /\ Len(Val(Val(result).files)) = Cardinality(Requested(cfg))
        /\ cfg.save = "on" => IsSet(Val(result).fileUrl)
        /\ Val(result).files # Some(<<>>)

\* an item has succeeded, saving being on, with no file and no fileUrl
C30_Witness ==
    /\ outcome = "resolved"
    /\ Val(result).success = Some(TRUE)
    /\ cfg.save = "on"
    /\ FilesOf(Val(result)) = {}
    /\ ~IsSet(Val(result).fileUrl)

====
